---------------------------- MODULE Spec2Model ----------------------------
(***************************************************************************)
(* A model of src/file_manager.py: the menu-driven file manager whose      *)
(* operations (list, copy, move, delete-with-backup) are gated by a mode.  *)
(*                                                                         *)
(* The file system is a finite tree: a function from the paths that exist  *)
(* to nodes.  A path is a sequence of names, <<>> is the root "/".  The    *)
(* shutil / os primitives are modelled by what they do to that tree,       *)
(* including the ways they fail.  A primitive can also fail for a reason   *)
(* the tree does not show (permission denied, I/O error); such a failure   *)
(* is an input of the step, the "fault".                                   *)
(*                                                                         *)
(* Not modelled: symbolic links, relative operand paths, end of input at   *)
(* a prompt, the argument shim for Spyder, the timestamp that log_action   *)
(* puts in front of a line, and the text of an exception inside an error   *)
(* message.                                                                *)
(***************************************************************************)
EXTENDS Integers, Sequences, FiniteSets, TLC

VARIABLES
    pc,           \* "start": main() not yet run; "menu": blocked in input() of line 173;
                  \* "call": about to call the operation; "log": about to call log_action; "exit"
    status,       \* the process's exit status, NoStatus while it runs
    mode,         \* args.m
    current_dir,  \* current_dir of main()
    fs,           \* the file system
    menu,         \* the options printed by the last rendering of the menu
    choice,       \* the last choice read
    source,       \* the source / item path the last step read, <<>> if none
    destination,  \* the destination path the last step read, <<>> if none
    out,          \* what this pass of the loop printed, menu aside (stdout and stderr)
    listed,       \* the entries this pass printed for list_directory
    steps         \* the calls this pass made, in order

vars == <<pc, status, mode, current_dir, fs, menu, choice, source, destination,
          out, listed, steps>>

---------------------------------------------------------------------------
(* Bounds of the model. *)

\* The longest path the file system takes (the stand-in for PATH_MAX: a
\* recursive copy of a directory into itself ends when it is reached).
MaxDepth == 5

\* The logged operations of one run: a choice that would log is not taken
\* once the log file holds this many lines.
MaxLog == 1

NoStatus == 0 - 1

NoArg == [abs |-> FALSE, segs |-> <<>>]

---------------------------------------------------------------------------
(* Paths. *)

\* os.path.expanduser('~'): the home of the user whose paths lines 10, 155
\* and 158 hard-code.
Home == <<"Users", "harrisonryan">>

\* The root of line 158.
Root == <<"Users", "harrisonryan">>

DefaultDir == [abs |-> TRUE, segs |-> <<"Users", "harrisonryan", "Downloads">>]

LogDir == Home \o <<"Python_Log">>

LogFile == LogDir \o <<"system_log.txt">>

BackupDir == Home \o <<"backups">>

Parent(p) == SubSeq(p, 1, Len(p) - 1)

Basename(p) == p[Len(p)]

IsPrefix(p, q) == Len(p) <= Len(q) /\ SubSeq(q, 1, Len(p)) = p

\* os.path.normpath of an absolute path: "." is dropped, ".." drops the
\* segment before it (and is itself dropped at the root).
RECURSIVE NormFrom(_, _)
NormFrom(done, rest) ==
    IF rest = <<>> THEN done
    ELSE LET s == Head(rest) IN
         IF s = "." THEN NormFrom(done, Tail(rest))
         ELSE IF s = ".."
              THEN NormFrom(IF done = <<>> THEN done ELSE Parent(done), Tail(rest))
              ELSE NormFrom(Append(done, s), Tail(rest))

NormPath(segs) == NormFrom(<<>>, segs)

RECURSIVE CommonLen(_, _)
CommonLen(p, q) ==
    IF p = <<>> \/ q = <<>> \/ Head(p) # Head(q) THEN 0
    ELSE 1 + CommonLen(Tail(p), Tail(q))

\* os.path.relpath(path, start) for absolute operands: one ".." for each
\* segment of start outside the common prefix, then the rest of path.
RelPath(path, start) ==
    LET p == NormPath(path)
        s == NormPath(start)
        i == CommonLen(p, s)
        rel == [k \in 1..(Len(s) - i) |-> ".."] \o SubSeq(p, i + 1, Len(p))
    IN IF rel = <<>> THEN <<".">> ELSE rel

\* The names of the model that have ".." as a substring.
DotDotNames == {"..", "a..b"}

\* '..' in <the joined string>: segments are joined by "/", so the substring
\* lies inside one segment.
ContainsDotDot(rel) == \E k \in 1..Len(rel) : rel[k] \in DotDotNames

\* The test of line 158 with "and" for "or".
RejectsStartDirBoth(d) == ~d.abs /\ ContainsDotDot(RelPath(d.segs, Root))

\* Line 158: the start directory is rejected when this is TRUE.  relpath is
\* evaluated only for an absolute path (the "or" short-circuits).

RejectsStartDir(d) == ~d.abs \/ ContainsDotDot(RelPath(d.segs, Root))

---------------------------------------------------------------------------
(* The file system. *)

DirNode == [dir |-> TRUE, content |-> <<>>]

FileNode(c) == [dir |-> FALSE, content |-> c]

DataLine(c) == <<"data", <<c>>, <<>>>>

Exists(f, p) == p = <<>> \/ p \in DOMAIN f

IsDir(f, p) == p = <<>> \/ (p \in DOMAIN f /\ f[p].dir)

Put(f, p, node) == [q \in DOMAIN f \cup {p} |-> IF q = p THEN node ELSE f[q]]

\* The names directly under directory p (os.listdir, os.scandir).
Entries(f, p) == {q[Len(q)] : q \in {r \in DOMAIN f : Len(r) = Len(p) + 1 /\ IsPrefix(p, r)}}

\* p and everything under it, with the paths relative to p.
Subtree(f, p) ==
    LET under == {q \in DOMAIN f : IsPrefix(p, q)}
    IN {<<SubSeq(q, Len(p) + 1, Len(q)), f[q]>> : q \in under}

RemoveTree(f, p) == [q \in {r \in DOMAIN f : ~IsPrefix(p, r)} |-> f[q]]

Ok(f) == [fs |-> f, ok |-> TRUE]

Fail(f) == [fs |-> f, ok |-> FALSE]

\* os.mkdir
Mkdir(f, p) ==
    IF Exists(f, p) \/ ~IsDir(f, Parent(p)) \/ Len(p) > MaxDepth
    THEN Fail(f)
    ELSE Ok(Put(f, p, DirNode))

\* os.makedirs(p): the missing parents first, then os.mkdir(p), which raises
\* when p exists.
RECURSIVE MakeDirs(_, _)
MakeDirs(f, p) ==
    IF p = <<>> THEN Fail(f)
    ELSE LET r == IF Exists(f, Parent(p)) THEN Ok(f) ELSE MakeDirs(f, Parent(p))
         IN IF r.ok THEN Mkdir(r.fs, p) ELSE r

\* shutil.copy(src, dst) and shutil.copy2: into dst when dst is a directory.
\* It raises when src is missing or a directory, when src and dst are the
\* same file, when the target's directory is missing and when the target is
\* a directory.  An existing target file is overwritten.
CopyFile(f, src, dst, fault) ==
    LET real == IF IsDir(f, dst) THEN Append(dst, Basename(src)) ELSE dst IN
    IF \/ ~Exists(f, src) \/ IsDir(f, src) \/ src = real
       \/ ~IsDir(f, Parent(real)) \/ IsDir(f, real)
       \/ (~Exists(f, real) /\ Len(real) > MaxDepth)
       \/ fault = "copy"
    THEN Fail(f)
    ELSE IF fault = "copy_partial"
         THEN Fail(Put(f, real, FileNode(<<>>)))
         ELSE Ok(Put(f, real, FileNode(f[src].content)))

\* shutil.copytree(src, dst): the entries of src are read first, then dst is
\* made (it must not exist), then each entry is copied; an entry's failure
\* is collected and raised at the end, after the other entries were copied.
\* The entries are taken in a fixed order.
RECURSIVE CopyTree(_, _, _, _), CopyEntries(_, _, _, _, _)

\* copytree that merges into an existing directory (dirs_exist_ok=True).
CopyTreeInto(f, src, dst, fault) ==
    IF ~IsDir(f, src) \/ fault = "copy" THEN Fail(f)
    ELSE LET made == IF IsDir(f, dst) THEN Ok(f) ELSE MakeDirs(f, dst) IN
         IF ~made.ok \/ fault = "copy_partial" THEN Fail(made.fs)
         ELSE CopyEntries(made.fs, src, dst, Entries(f, src), TRUE)

CopyTree(f, src, dst, fault) ==
    IF ~IsDir(f, src) \/ fault = "copy" THEN Fail(f)
    ELSE LET made == IF Exists(f, dst) THEN Fail(f) ELSE MakeDirs(f, dst) IN
         IF ~made.ok \/ fault = "copy_partial" THEN Fail(made.fs)
         ELSE CopyEntries(made.fs, src, dst, Entries(f, src), TRUE)

CopyEntries(f, src, dst, todo, ok) ==
    IF todo = {} THEN [fs |-> f, ok |-> ok]
    ELSE LET e == CHOOSE x \in todo : TRUE
             r == IF IsDir(f, Append(src, e))
                  THEN CopyTree(f, Append(src, e), Append(dst, e), "none")
                  ELSE CopyFile(f, Append(src, e), Append(dst, e), "none")
         IN CopyEntries(r.fs, src, dst, todo \ {e}, ok /\ r.ok)

\* os.rename(src, real) where it succeeds: an existing file at real is
\* replaced, a directory moves with everything under it.
Rename(f, src, real) ==
    IF src = real THEN f
    ELSE LET g == RemoveTree(f, real)
             moved == {q \in DOMAIN g : IsPrefix(src, q)}
             keep == DOMAIN g \ moved
             new == {real \o SubSeq(q, Len(src) + 1, Len(q)) : q \in moved}
         IN [p \in keep \cup new |->
                IF p \in keep THEN g[p]
                ELSE g[src \o SubSeq(p, Len(real) + 1, Len(p))]]

\* Whether os.rename(src, real) succeeds.
RenameOk(f, src, real) ==
    /\ Exists(f, src)
    /\ IsDir(f, Parent(real))
    /\ ~(IsDir(f, src) /\ src # real /\ IsPrefix(src, real))
    /\ ~(IsDir(f, src) /\ Exists(f, real) /\ ~IsDir(f, real))
    /\ ~(~IsDir(f, src) /\ IsDir(f, real))

\* shutil.move(src, dst) past the choice of the real destination: os.rename,
\* and when that raises, copy and delete.
MoveTo(f, src, dst, real) ==
    IF RenameOk(f, src, real) THEN Ok(Rename(f, src, real))
    ELSE IF IsDir(f, src)
         THEN IF IsPrefix(src, dst) THEN Fail(f)
              ELSE LET c == CopyTree(f, src, real, "none") IN
                   IF c.ok THEN Ok(RemoveTree(c.fs, src)) ELSE c
         ELSE LET c == CopyFile(f, src, real, "none") IN
              IF c.ok THEN Ok(RemoveTree(c.fs, src)) ELSE c

\* shutil.move(src, dst): into dst when dst is a directory, where the name
\* must be free.
Move(f, src, dst, fault) ==
    IF fault = "copy" THEN Fail(f)
    ELSE IF IsDir(f, dst)
         THEN IF src = dst THEN Ok(f)
              ELSE IF Exists(f, Append(dst, Basename(src))) THEN Fail(f)
                   ELSE MoveTo(f, src, dst, Append(dst, Basename(src)))
         ELSE MoveTo(f, src, dst, dst)

---------------------------------------------------------------------------
(* The operations of file_manager.py.  Each returns the file system it      *)
(* leaves, what it printed and the calls it made; none of them raises,      *)
(* log_action and setup_logging aside, which return ok = FALSE when they    *)
(* raise.                                                                   *)

Modes == {"basic", "elevated", "admin"}

\* What the command line gives for -m: a mode, another word, or nothing.
ArgModes == Modes \cup {"bogus", "missing"}

\* What the command line gives for -d (NoArg: no -d, or an empty one).
ArgDirs ==
    { NoArg,
      [abs |-> TRUE,  segs |-> <<"Users", "harrisonryan", "d", "..">>],
      [abs |-> TRUE,  segs |-> <<"Users", "harrisonryan", "..", "etc">>],
      [abs |-> TRUE,  segs |-> <<"Users", "harrisonryan", "a..b">>],
      [abs |-> TRUE,  segs |-> <<"etc">>],
      [abs |-> FALSE, segs |-> <<"relative", "dir">>] }

\* The paths the user types at the source and item prompts: a directory, a
\* file, a missing path, the backup directory and the directory above it.
SourcePaths == { Home \o <<"d">>, Home \o <<"f">>, Home \o <<"g">>, BackupDir, Home }

\* The paths the user types at the destination prompt.
DestinationPaths == { Home \o <<"d">>, Home \o <<"f">>, Home \o <<"g">> }

\* What the user types at "Select an option: ".
Choices == {"0", "1", "2", "3", "4", "5"}

\* The primitive that fails in a step for a reason outside the tree.
Faults == {"none", "listdir", "makedirs", "copy", "copy_partial", "remove", "log"}

\* The faults that copy_item, move_item and delete_item can meet.
CopyFaults == {"none", "copy", "copy_partial"}

MoveFaults == {"none", "copy"}

DeleteFaults == {"none", "makedirs", "copy", "copy_partial", "remove"}

\* setup_logging: makes ~/Python_Log when it is missing.
SetupLogging(f, fault) ==
    IF Exists(f, LogDir) THEN Ok(f)
    ELSE IF fault = "makedirs" THEN Fail(f) ELSE MakeDirs(f, LogDir)

\* The lines of the log file.
LogLines(f) == IF LogFile \in DOMAIN f /\ ~f[LogFile].dir THEN f[LogFile].content ELSE <<>>

\* log_action: open(log_file, 'a') and one write.  It has no try: ok = FALSE
\* is an exception that leaves log_action.
LogAction(f, line, fault) ==
    IF fault = "log" \/ ~IsDir(f, LogDir) \/ IsDir(f, LogFile) THEN Fail(f)
    ELSE Ok(Put(f, LogFile, FileNode(Append(LogLines(f), line))))

\* list_directory
ListDirectory(f, path, fault) ==
    IF ~IsDir(f, path) \/ fault = "listdir"
    THEN [out |-> <<"Error listing directory">>, listed |-> {}]
    ELSE [out |-> <<>>,
          listed |-> {IF IsDir(f, Append(path, e))
                      THEN <<e, "/", 0>>
                      ELSE <<e, "bytes", Len(f[Append(path, e)].content)>> :
                      e \in Entries(f, path)}]

\* copy_item
CopyItem(f, src, dst, fault) ==
    LET r == IF IsDir(f, src) THEN CopyTree(f, src, dst, fault)
                              ELSE CopyFile(f, src, dst, fault)
    IN [fs |-> r.fs,
        out |-> IF r.ok THEN <<"was copied to">> ELSE <<"Error copying item">>,
        steps |-> <<"copy_item">>]

\* move_item
MoveItem(f, src, dst, fault) ==
    LET r == Move(f, src, dst, fault)
    IN [fs |-> r.fs,
        out |-> IF r.ok THEN <<"was moved to">> ELSE <<"Error moving item">>,
        steps |-> <<"move_item">>]

\* backup_path of delete_item
BackupPath(item, backup_dir) == Append(backup_dir, "deleted_" \o Basename(item))

\* The removal of delete_item, lines 138-141.
RemoveItem(f, item, fault) ==
    IF fault = "remove" \/ ~Exists(f, item) THEN Fail(f) ELSE Ok(RemoveTree(f, item))

\* delete_item
DeleteItem(f, item, backup_dir, fault) ==
    LET mk == IF Exists(f, backup_dir) THEN Ok(f)
              ELSE IF fault = "makedirs" THEN Fail(f) ELSE MakeDirs(f, backup_dir)
        bp == BackupPath(item, backup_dir)
        bk == IF IsDir(mk.fs, item) THEN CopyTree(mk.fs, item, bp, fault)
                                    ELSE CopyFile(mk.fs, item, bp, fault)
        rm == RemoveItem(bk.fs, item, fault)
    IN IF ~mk.ok
       THEN [fs |-> mk.fs, out |-> <<"Error deleting item">>,
             steps |-> <<"delete_item", "makedirs_failed">>]
       ELSE IF ~bk.ok
       THEN [fs |-> bk.fs, out |-> <<"Error deleting item">>,
             steps |-> <<"delete_item", "backup_failed">>]
       ELSE IF ~rm.ok
       THEN [fs |-> rm.fs, out |-> <<"Error deleting item">>,
             steps |-> <<"delete_item", "backup_done", "remove_failed">>]
       ELSE [fs |-> rm.fs, out |-> <<"was deleted and backed up.">>,
             steps |-> <<"delete_item", "backup_done", "remove_done">>]

\* A menu that shows the admin options to elevated as well.
MenuOptionsWide(m) ==
    {"1"} \cup (IF m \in {"elevated", "admin"} THEN {"2", "3", "4"} ELSE {}) \cup {"0"}

\* The options the menu shows, lines 164-171.
MenuOptions(m) ==
    {"1"} \cup (IF m \in {"elevated", "admin"} THEN {"2"} ELSE {})
          \cup (IF m = "admin" THEN {"3", "4"} ELSE {})
          \cup {"0"}

\* A chain whose test for '3' lets elevated through.
RouteLax(m, c) ==
    IF c = "0" THEN "exit"
    ELSE IF c = "1" THEN "list"
    ELSE IF c = "2" /\ m \in {"elevated", "admin"} THEN "copy"
    ELSE IF c = "3" /\ m \in {"elevated", "admin"} THEN "move"
    ELSE IF c = "4" /\ m = "admin" THEN "delete"
    ELSE "invalid"

\* The branch of the if / elif chain of lines 175-206 that a choice takes.
Route(m, c) ==
    IF c = "0" THEN "exit"
    ELSE IF c = "1" THEN "list"
    ELSE IF c = "2" /\ m \in {"elevated", "admin"} THEN "copy"
    ELSE IF c = "3" /\ m = "admin" THEN "move"
    ELSE IF c = "4" /\ m = "admin" THEN "delete"
    ELSE "invalid"

---------------------------------------------------------------------------
(* The state machine. *)

\* The file system main() starts in: first run, no ~/Python_Log, no ~/backups.
InitFS ==
    [p \in { <<"Users">>, Home, Home \o <<"d">>, Home \o <<"d", "f">>, Home \o <<"f">> } |->
        IF p = Home \o <<"d", "f">> THEN FileNode(<<DataLine("c1")>>)
        ELSE IF p = Home \o <<"f">> THEN FileNode(<<DataLine("c2"), DataLine("c2")>>)
        ELSE DirNode]

Init ==
    /\ pc = "start"
    /\ status = NoStatus
    /\ mode = "unset"
    /\ current_dir = NoArg
    /\ fs = InitFS
    /\ menu = {}
    /\ choice = ""
    /\ source = <<>>
    /\ destination = <<>>
    /\ out = <<>>
    /\ listed = {}
    /\ steps = <<>>

\* One pass of the loop ends: the menu is printed again and input() blocks.
Continue(c, src, dst, f, o, l, s) ==
    /\ pc' = "menu"
    /\ menu' = MenuOptions(mode)
    /\ choice' = c
    /\ source' = src
    /\ destination' = dst
    /\ fs' = f
    /\ out' = o
    /\ listed' = l
    /\ steps' = s
    /\ UNCHANGED <<status, mode, current_dir>>

\* The source exists: the pass goes on to call the operation.
Enter(c, src, dst, f, s) ==
    /\ pc' = "call"
    /\ choice' = c
    /\ source' = src
    /\ destination' = dst
    /\ fs' = f
    /\ out' = <<>>
    /\ listed' = {}
    /\ steps' = s
    /\ UNCHANGED <<status, mode, current_dir, menu>>

\* The operation returns: log_action is next.
Return(op) ==
    /\ pc' = "log"
    /\ fs' = op.fs
    /\ out' = out \o op.out
    /\ steps' = steps \o op.steps
    /\ UNCHANGED <<status, mode, current_dir, menu, choice, source, destination, listed>>

\* An exception leaves main(): traceback on stderr, exit status 1.
Crash(c, src, dst, f, o, s) ==
    /\ pc' = "exit"
    /\ status' = 1
    /\ choice' = c
    /\ source' = src
    /\ destination' = dst
    /\ fs' = f
    /\ out' = Append(o, "Traceback")
    /\ listed' = {}
    /\ steps' = s
    /\ UNCHANGED <<mode, current_dir, menu>>

\* main() up to the first input(): lines 153-173.
Startup ==
    /\ pc = "start"
    /\ \E m \in ArgModes, d \in ArgDirs, fault \in {"none", "makedirs"} :
         LET lg == SetupLogging(fs, fault)
             cd == IF d = NoArg THEN DefaultDir ELSE d
         IN IF m \notin Modes
            THEN /\ pc' = "exit"
                 /\ status' = 2
                 /\ out' = <<"usage error">>
                 /\ steps' = <<"parse_arguments">>
                 /\ UNCHANGED <<mode, current_dir, fs, menu>>
            ELSE IF ~lg.ok
            THEN /\ pc' = "exit"
                 /\ status' = 1
                 /\ out' = <<"Traceback">>
                 /\ steps' = <<"parse_arguments", "setup_logging">>
                 /\ mode' = m
                 /\ fs' = lg.fs
                 /\ UNCHANGED <<current_dir, menu>>
            ELSE IF RejectsStartDir(cd)
            THEN /\ pc' = "exit"
                 /\ status' = 1
                 /\ out' = <<"Invalid directory path.">>
                 /\ steps' = <<"parse_arguments", "setup_logging">>
                 /\ mode' = m
                 /\ current_dir' = cd
                 /\ fs' = lg.fs
                 /\ UNCHANGED menu
            ELSE /\ pc' = "menu"
                 /\ status' = status
                 /\ out' = <<>>
                 /\ steps' = <<"parse_arguments", "setup_logging">>
                 /\ mode' = m
                 /\ current_dir' = cd
                 /\ fs' = lg.fs
                 /\ menu' = MenuOptions(m)
    /\ UNCHANGED <<choice, source, destination, listed>>

\* choice == '0'
ChoiceExit ==
    /\ pc = "menu"
    /\ Route(mode, "0") = "exit"
    /\ pc' = "exit"
    /\ status' = 0
    /\ choice' = "0"
    /\ out' = <<>>
    /\ listed' = {}
    /\ steps' = <<>>
    /\ source' = <<>>
    /\ destination' = <<>>
    /\ UNCHANGED <<mode, current_dir, fs, menu>>

\* choice == '1'
ChoiceList ==
    /\ pc = "menu"
    /\ Route(mode, "1") = "list"
    /\ \E fault \in {"none", "listdir"} :
         LET r == ListDirectory(fs, NormPath(current_dir.segs), fault)
         IN Continue("1", <<>>, <<>>, fs, r.out, r.listed, <<"list_directory">>)

\* choice == '2' and args.m in ['elevated', 'admin'], up to the call of copy_item
ChoiceCopy ==
    /\ pc = "menu"
    /\ Route(mode, "2") = "copy"
    /\ \E src \in SourcePaths, dst \in DestinationPaths :
         LET st == <<"input_source", "input_destination", "exists">>
         IN IF Exists(fs, src)
            THEN Len(LogLines(fs)) < MaxLog /\ Enter("2", src, dst, fs, st)
            ELSE Continue("2", src, dst, fs, <<"Source does not exist.">>, {}, st)

\* choice == '3' and args.m == 'admin', up to the call of move_item
ChoiceMove ==
    /\ pc = "menu"
    /\ Route(mode, "3") = "move"
    /\ \E src \in SourcePaths, dst \in DestinationPaths :
         LET st == <<"input_source", "input_destination", "exists">>
         IN IF Exists(fs, src)
            THEN Len(LogLines(fs)) < MaxLog /\ Enter("3", src, dst, fs, st)
            ELSE Continue("3", src, dst, fs, <<"Source does not exist.">>, {}, st)

\* choice == '4' and args.m == 'admin', up to the call of delete_item
ChoiceDelete ==
    /\ pc = "menu"
    /\ Route(mode, "4") = "delete"
    /\ \E item \in SourcePaths, fault \in {"none", "makedirs"} :
         LET mk == IF Exists(fs, BackupDir) THEN Ok(fs)
                   ELSE IF fault = "makedirs" THEN Fail(fs) ELSE MakeDirs(fs, BackupDir)
             pre == <<"input_item">> \o (IF Exists(fs, BackupDir) THEN <<>> ELSE <<"makedirs">>)
             st == Append(pre, "exists")
         IN IF ~mk.ok THEN Crash("4", item, <<>>, mk.fs, <<>>, pre)
            ELSE IF Exists(mk.fs, item)
            THEN Len(LogLines(fs)) < MaxLog /\ Enter("4", item, <<>>, mk.fs, st)
            ELSE Continue("4", item, <<>>, mk.fs, <<"Item does not exist.">>, {}, st)

\* else: print("Invalid choice.")
ChoiceInvalid ==
    /\ pc = "menu"
    /\ \E c \in Choices :
         /\ Route(mode, c) = "invalid"
         /\ Continue(c, <<>>, <<>>, fs, <<"Invalid choice.">>, {}, <<>>)

\* line 183
CallCopyItem ==
    /\ pc = "call"
    /\ choice = "2"
    /\ \E fault \in CopyFaults : Return(CopyItem(fs, source, destination, fault))

\* line 191
CallMoveItem ==
    /\ pc = "call"
    /\ choice = "3"
    /\ \E fault \in MoveFaults : Return(MoveItem(fs, source, destination, fault))

\* line 201
CallDeleteItem ==
    /\ pc = "call"
    /\ choice = "4"
    /\ \E fault \in DeleteFaults : Return(DeleteItem(fs, source, BackupDir, fault))

\* The line that lines 184, 192 and 202 hand to log_action.
LogLineOf(c, src, dst) ==
    <<(IF c = "2" THEN "Copied" ELSE IF c = "3" THEN "Moved" ELSE "Deleted"), src, dst>>

\* A dispatcher that logs an operation only when it reported success.
CallLogActionOnSuccess ==
    /\ pc = "log"
    /\ \E fault \in {"none", "log"} :
         LET failed == out \in {<<"Error copying item">>, <<"Error moving item">>,
                                <<"Error deleting item">>}
             lg == IF failed THEN Ok(fs)
                   ELSE LogAction(fs, LogLineOf(choice, source, destination), fault)
             st == Append(steps, "log_action")
         IN IF lg.ok THEN Continue(choice, source, destination, lg.fs, out, {}, st)
                     ELSE Crash(choice, source, destination, lg.fs, out, st)

\* lines 184, 192, 202: an exception of log_action is caught nowhere.
CallLogAction ==
    /\ pc = "log"
    /\ \E fault \in {"none", "log"} :
         LET lg == LogAction(fs, LogLineOf(choice, source, destination), fault)
             st == Append(steps, "log_action")
         IN IF lg.ok THEN Continue(choice, source, destination, lg.fs, out, {}, st)
                     ELSE Crash(choice, source, destination, lg.fs, out, st)

Next ==
    \/ Startup
    \/ ChoiceExit
    \/ ChoiceList
    \/ ChoiceCopy
    \/ ChoiceMove
    \/ ChoiceDelete
    \/ ChoiceInvalid
    \/ CallCopyItem
    \/ CallMoveItem
    \/ CallDeleteItem
    \/ CallLogAction

Spec == Init /\ [][Next]_vars

---------------------------------------------------------------------------
(* The claims. *)

InLoop == pc \in {"menu", "call", "log"}

\* The choices whose gating mode m does not satisfy.
Gated(m, c) ==
    \/ c = "2" /\ m = "basic"
    \/ c \in {"3", "4"} /\ m \in {"basic", "elevated"}

OperationSteps == {"list_directory", "copy_item", "move_item", "delete_item", "log_action"}

Last(q) == q[Len(q)]

\* C1: a choice whose gating mode is not satisfied is answered with "Invalid
\* choice." and nothing else happens in that pass: no prompt, no call, no
\* change of the file system (no copy, move, delete, backup directory or log
\* line), and the loop goes on.
C1_GatedChoiceIsInvalid ==
    [][(pc = "menu" /\ Gated(mode, choice'))
         => /\ pc' = "menu"
            /\ out' = <<"Invalid choice.">>
            /\ steps' = <<>>
            /\ fs' = fs]_vars

C1_Witness ==
    /\ pc = "menu" /\ mode = "elevated" /\ choice = "3"
    /\ out = <<"Invalid choice.">> /\ steps = <<>>

\* C2 (as claimed): when the backup copy of delete_item fails, the failure is
\* reported, the removal is not reached, and the item still exists with its
\* contents as they were when delete_item was called.
C2_FailedBackupLeavesItemUntouched ==
    [][(pc = "call" /\ choice = "4" /\ pc' = "log" /\ Last(steps') = "backup_failed")
         => /\ out' = <<"Error deleting item">>
            /\ Exists(fs', source)
            /\ Subtree(fs', source) = Subtree(fs, source)]_vars

\* C3 (as claimed): when delete_item reports success for X, X is gone from its
\* path and deleted_X under the backup directory is a copy of what X was.
C3_SuccessfulDeleteLeavesBackup ==
    [][(pc = "call" /\ choice = "4" /\ pc' = "log"
          /\ out' = <<"was deleted and backed up.">>)
         => /\ ~Exists(fs', source)
            /\ Exists(fs', BackupPath(source, BackupDir))
            /\ Subtree(fs', BackupPath(source, BackupDir)) = Subtree(fs, source)]_vars

\* C4: copy_item of a directory to a path that exists fails: it prints the
\* error and no success message, returns to the dispatcher, and what was at
\* the destination is as it was.
C4_CopyDirToExistingFails ==
    [][(pc = "call" /\ choice = "2" /\ IsDir(fs, source) /\ Exists(fs, destination))
         => /\ pc' = "log"
            /\ out' = <<"Error copying item">>
            /\ Subtree(fs', destination) = Subtree(fs, destination)]_vars

C4_Witness ==
    /\ pc = "log" /\ choice = "2"
    /\ source = Home /\ destination = Home \o <<"d">>
    /\ IsDir(fs, source) /\ IsDir(fs, destination)
    /\ out = <<"Error copying item">>

\* A parent-directory segment in a relative path.
HasTraversal(rel) == \E k \in 1..Len(rel) : rel[k] = ".."

\* The program ended before the menu was ever printed.
StartupExit == pc = "exit" /\ menu = {}

\* C5, the part that holds as claimed: the start directory is accepted only
\* if it is absolute and its path relative to the root has no ".." segment;
\* on rejection the program prints the error and exits with status 1 before
\* the menu is printed, a choice is read or an operation runs.
C5_Validation ==
    /\ menu # {} => current_dir.abs /\ ~HasTraversal(RelPath(current_dir.segs, Root))
    /\ out = <<"Invalid directory path.">> => StartupExit /\ status = 1
    /\ StartupExit => /\ choice = "" /\ listed = {}
                      /\ \A k \in 1..Len(steps) : steps[k] \notin OperationSteps

\* C5 (as claimed): C5_Validation, and the rejection is the only way the
\* program ends with a non-zero status at startup.
C5_OnlyRejectionExitsNonZero ==
    /\ C5_Validation
    /\ StartupExit /\ status # 0 => out = <<"Invalid directory path.">>

\* C5 (amended): C5_Validation, and the program ends with a non-zero status
\* at startup in exactly three ways: status 2 when the arguments do not
\* parse, status 1 with a traceback when setup_logging raises, status 1 with
\* "Invalid directory path." when the start directory is rejected.
C5_StartupExits ==
    /\ C5_Validation
    /\ StartupExit =>
         \/ status = 2 /\ out = <<"usage error">> /\ mode = "unset" /\ fs = InitFS
         \/ status = 1 /\ out = <<"Traceback">> /\ mode \in Modes /\ ~Exists(fs, LogDir)
         \/ /\ status = 1 /\ out = <<"Invalid directory path.">> /\ mode \in Modes
            /\ Exists(fs, LogDir)
            /\ ~current_dir.abs \/ ContainsDotDot(RelPath(current_dir.segs, Root))

C5_Witness ==
    /\ StartupExit /\ status = 1 /\ out = <<"Invalid directory path.">>
    /\ current_dir.abs /\ HasTraversal(RelPath(current_dir.segs, Root))

\* C6: the options the menu shows are exactly the choices the dispatcher
\* routes to an action in the mode (basic 0 1, elevated 0 1 2, admin 0 1 2 3
\* 4), and each mode's options are a proper subset of the next mode's.
C6_MenuIsExactlyRouted ==
    /\ InLoop => /\ menu = {c \in Choices : Route(mode, c) # "invalid"}
                 /\ menu = CASE mode = "basic" -> {"0", "1"}
                             [] mode = "elevated" -> {"0", "1", "2"}
                             [] mode = "admin" -> {"0", "1", "2", "3", "4"}
    /\ MenuOptions("basic") \subseteq MenuOptions("elevated")
    /\ MenuOptions("basic") # MenuOptions("elevated")
    /\ MenuOptions("elevated") \subseteq MenuOptions("admin")
    /\ MenuOptions("elevated") # MenuOptions("admin")

C6_Witness ==
    /\ pc = "menu" /\ mode = "elevated" /\ menu = {"0", "1", "2"}
    /\ choice = "2" /\ Last(steps) = "log_action"

\* C7 (as claimed): while a permitted choice 1, 2, 3 or 4 is handled, no
\* failure ends the loop: control stays in the dispatcher, with the mode and
\* the current directory as they were.
C7_NoErrorLeavesTheLoop ==
    [][(InLoop /\ choice' \in {"1", "2", "3", "4"} /\ Route(mode, choice') # "invalid")
         => InLoop' /\ mode' = mode /\ current_dir' = current_dir]_vars

\* C8 (as claimed): a permitted choice 2, 3 or 4 with a path that does not
\* exist prints the not-exist message, calls no operation, leaves the file
\* system (the log with it) as it was, and the loop goes on.
C8_MissingSourceChangesNothing ==
    [][(pc = "menu" /\ choice' \in {"2", "3", "4"} /\ Route(mode, choice') # "invalid"
          /\ ~Exists(fs, source'))
         => /\ pc' = "menu"
            /\ out' \in {<<"Source does not exist.">>, <<"Item does not exist.">>}
            /\ \A k \in 1..Len(steps') : steps'[k] \notin OperationSteps
            /\ fs' = fs]_vars

\* C9 (as claimed): choice 0 ends the loop with exit status 0, and nothing
\* else ends it: after any other choice the program is still in the loop.
C9_OnlyChoiceZeroLeavesTheLoop ==
    [][InLoop => /\ (pc = "menu" /\ choice' = "0") => (pc' = "exit" /\ status' = 0)
                 /\ pc' = "exit" => (choice' = "0" /\ status' = 0)]_vars

=============================================================================
